---- MODULE Spec2Model ----
(***************************************************************************)
(* Model of js/script.js: the scrollable beeswarm timeline of earthquake   *)
(* aftershocks.  loadData fetches and parses data.csv, parseDateTime turns *)
(* the "D Mon YYYY - H:MM AM/PM" text into a Date, createChart normalizes  *)
(* the records, builds the scales, runs the d3 force simulation for 300    *)
(* ticks, draws circles and labels and wires the scroll reveal.            *)
(*                                                                         *)
(* Conventions.  A JavaScript string is a sequence of one-character        *)
(* strings.  A JavaScript value is a record [t, s, n]: t "string" with s   *)
(* its characters; t "number" with n the number; t "date" with n the       *)
(* minutes since the local epoch 1970-01-01 00:00 (the code never sets     *)
(* seconds, so getTime() is n * 60000); t "invalid" for an Invalid Date    *)
(* (getTime() is NaN); t "null" and t "undefined"; and, as the outcome of  *)
(* a call only, t "throw" for a call that raised a TypeError instead of    *)
(* returning.  The local time zone is taken to have a fixed offset (no     *)
(* daylight saving).  Magnitudes are numbers in tenths; pixel lengths of   *)
(* the simulation are numbers in hundredths of a pixel.                    *)
(***************************************************************************)
EXTENDS Integers, Sequences, FiniteSets, TLC

VARIABLES
    dateTimeStr,     \* parseDateTime: the argument of the call under study
    written,         \* what the text of dateTimeStr says, field by field
    parseResult,     \* parseDateTime: what the call returned (or that it threw)
    parsePc,         \* "ready" before the call, "returned" after it
    pc,              \* where createChart (and loadData inside it) stands
    table,           \* data.csv as Papa.parse reads it: header and rows
    data,            \* createChart's data: null, or the array of row objects
    validData,       \* the filtered, sorted array: references into data
    uncaught,        \* the exception that ended createChart, "none" if none
    consoleErrors,   \* whether console.error has logged a load error
    loadingText,     \* textContent of #loading
    loadingShown,    \* #loading is displayed
    containerShown,  \* #container is displayed
    scrollHintShown, \* #scroll-hint is displayed
    chart,           \* time range, dimensions and margins of the chart
    svgCreated,      \* the svg and its g have been appended
    timeTicks,       \* the minute ticks drawn on the centre line
    annotations,     \* the annotation boxes appended
    sim,             \* the force simulation: alpha and what the forces hold
    tickCount,       \* the ticks the simulation has run
    circles,         \* the circle elements
    labels,          \* the magnitude label elements
    listener,        \* updateVisibility is registered for scroll events
    scrollCenter,    \* the scrollCenter of the last updateVisibility
    maxScrollCenter  \* the largest scrollCenter any updateVisibility computed

parseVars == <<dateTimeStr, written, parseResult, parsePc>>

domVars == <<loadingText, loadingShown, containerShown, scrollHintShown>>

drawnVars == <<svgCreated, timeTicks, annotations, circles, labels>>

scrollVars == <<listener, scrollCenter, maxScrollCenter>>

pipeVars ==
    <<pc, table, data, validData, uncaught, consoleErrors, chart, sim,
      tickCount, domVars, drawnVars, scrollVars>>

vars == <<parseVars, pipeVars>>

-----------------------------------------------------------------------------
(* Characters and the regular expression of parseDateTime.                  *)

Digits == {"0", "1", "2", "3", "4", "5", "6", "7", "8", "9"}

Letters ==
    {"a", "b", "c", "d", "e", "f", "g", "h", "i", "j", "k", "l", "m",
     "n", "o", "p", "q", "r", "s", "t", "u", "v", "w", "x", "y", "z",
     "A", "B", "C", "D", "E", "F", "G", "H", "I", "J", "K", "L", "M",
     "N", "O", "P", "Q", "R", "S", "T", "U", "V", "W", "X", "Y", "Z"}

\* \w of a JavaScript regular expression without the unicode flag.
WordChars == Digits \cup Letters \cup {"_"}

DigitVal(c) ==
    CASE c = "0" -> 0 [] c = "1" -> 1 [] c = "2" -> 2 [] c = "3" -> 3
      [] c = "4" -> 4 [] c = "5" -> 5 [] c = "6" -> 6 [] c = "7" -> 7
      [] c = "8" -> 8 [] c = "9" -> 9

\* The character at position i (1-based), "" past either end.
At(s, i) == IF i >= 1 /\ i <= Len(s) THEN s[i] ELSE ""

\* The position just after the longest run of characters of class that
\* starts at i: what a greedy \d+ or \w+ consumes from i.
RECURSIVE RunEnd(_, _, _)
RunEnd(s, i, class) ==
    IF i <= Len(s) /\ s[i] \in class THEN RunEnd(s, i + 1, class) ELSE i

NoMatch ==
    [ok |-> FALSE, p1 |-> <<>>, p2 |-> <<>>, p3 |-> <<>>, p4 |-> <<>>,
     p5 |-> <<>>, p6 |-> <<>>]

\* /(\d+) (\w+) (\d+) - (\d+):(\d+) (AM|PM)/ tried at position i.  Each
\* greedy group is followed by a character outside its class, so the only
\* way it can match is with the whole run: backtracking finds nothing else.
MatchAt(s, i) ==
    LET e1 == RunEnd(s, i, Digits)
        e2 == RunEnd(s, e1 + 1, WordChars)
        e3 == RunEnd(s, e2 + 1, Digits)
        e4 == RunEnd(s, e3 + 3, Digits)
        e5 == RunEnd(s, e4 + 1, Digits)
    IN  IF /\ e1 > i /\ At(s, e1) = " "
           /\ e2 > e1 + 1 /\ At(s, e2) = " "
           /\ e3 > e2 + 1
           /\ At(s, e3) = " " /\ At(s, e3 + 1) = "-" /\ At(s, e3 + 2) = " "
           /\ e4 > e3 + 3 /\ At(s, e4) = ":"
           /\ e5 > e4 + 1 /\ At(s, e5) = " "
           /\ At(s, e5 + 1) \in {"A", "P"} /\ At(s, e5 + 2) = "M"
        THEN [ok |-> TRUE,
              p1 |-> SubSeq(s, i, e1 - 1),
              p2 |-> SubSeq(s, e1 + 1, e2 - 1),
              p3 |-> SubSeq(s, e2 + 1, e3 - 1),
              p4 |-> SubSeq(s, e3 + 3, e4 - 1),
              p5 |-> SubSeq(s, e4 + 1, e5 - 1),
              p6 |-> SubSeq(s, e5 + 1, e5 + 2)]
        ELSE NoMatch

\* String.prototype.match with a non-global, unanchored expression: the
\* leftmost position at which the expression matches.
RECURSIVE MatchFrom(_, _)
MatchFrom(s, i) ==
    IF i > Len(s) THEN NoMatch
    ELSE IF MatchAt(s, i).ok THEN MatchAt(s, i)
    ELSE MatchFrom(s, i + 1)

RegexMatch(s) == MatchFrom(s, 1)

\* parseInt of a non-empty run of decimal digits.
RECURSIVE ParseInt(_)
ParseInt(ds) ==
    IF Len(ds) = 0 THEN 0
    ELSE 10 * ParseInt(SubSeq(ds, 1, Len(ds) - 1)) + DigitVal(ds[Len(ds)])

\* substring(0, 3)
Substring03(s) == SubSeq(s, 1, IF Len(s) < 3 THEN Len(s) ELSE 3)

\* months[...]: the 12-entry table; Undefined for any other key.
Undefined == 0 - 1

MonthIndex(k) ==
    CASE k = <<"J", "a", "n">> -> 0
      [] k = <<"F", "e", "b">> -> 1
      [] k = <<"M", "a", "r">> -> 2
      [] k = <<"A", "p", "r">> -> 3
      [] k = <<"M", "a", "y">> -> 4
      [] k = <<"J", "u", "n">> -> 5
      [] k = <<"J", "u", "l">> -> 6
      [] k = <<"A", "u", "g">> -> 7
      [] k = <<"S", "e", "p">> -> 8
      [] k = <<"O", "c", "t">> -> 9
      [] k = <<"N", "o", "v">> -> 10
      [] k = <<"D", "e", "c">> -> 11
      [] OTHER -> Undefined

-----------------------------------------------------------------------------
(* JavaScript Date: new Date(year, month, day, hour, minute) and getters.   *)

JsString(chars) == [t |-> "string", s |-> chars, n |-> 0]
JsNumber(k) == [t |-> "number", s |-> <<>>, n |-> k]
JsDate(minutes) == [t |-> "date", s |-> <<>>, n |-> minutes]
JsNull == [t |-> "null", s |-> <<>>, n |-> 0]
JsUndefined == [t |-> "undefined", s |-> <<>>, n |-> 0]
InvalidDate == [t |-> "invalid", s |-> <<>>, n |-> 0]
ThrownTypeError == [t |-> "throw", s |-> <<>>, n |-> 0]

\* Days from 1970-01-01 to the given day of the proleptic Gregorian
\* calendar; month0 is 0-based and day may lie outside the month (MakeDay).
MakeDay(year, month0, day) ==
    LET ym == year + (month0 \div 12)
        m == (month0 % 12) + 1
        y == IF m <= 2 THEN ym - 1 ELSE ym
        era == y \div 400
        yoe == y - era * 400
        mp == (m + 9) % 12
        doy == (153 * mp + 2) \div 5
        doe == yoe * 365 + (yoe \div 4) - (yoe \div 100) + doy
    IN  era * 146097 + doe - 719468 + (day - 1)

\* The Date constructor with five components: a year in 0..99 means
\* 1900 + year, an undefined month gives an Invalid Date, and components
\* out of range carry into the next larger unit.
NewDate(year, month0, day, hour, minute) ==
    IF month0 = Undefined THEN InvalidDate
    ELSE LET fullYear == IF year >= 0 /\ year <= 99 THEN 1900 + year ELSE year
         IN  JsDate(MakeDay(fullYear, month0, day) * 1440 + hour * 60 + minute)

\* Civil date of a day number (the inverse of MakeDay on valid dates).
CivilFromDays(z0) ==
    LET z == z0 + 719468
        era == z \div 146097
        doe == z - era * 146097
        yoe == (doe - (doe \div 1460) + (doe \div 36524) - (doe \div 146096)) \div 365
        doy == doe - (365 * yoe + (yoe \div 4) - (yoe \div 100))
        mp == (5 * doy + 2) \div 153
        d == doy - ((153 * mp + 2) \div 5) + 1
        m == IF mp < 10 THEN mp + 3 ELSE mp - 9
        y == yoe + era * 400 + (IF m <= 2 THEN 1 ELSE 0)
    IN  [year |-> y, month0 |-> m - 1, day |-> d]

GetFullYear(date) == CivilFromDays(date.n \div 1440).year
GetMonth(date) == CivilFromDays(date.n \div 1440).month0
GetDate(date) == CivilFromDays(date.n \div 1440).day
GetHours(date) == (date.n % 1440) \div 60
GetMinutes(date) == date.n % 60
\* The constructor is never given seconds or milliseconds.
GetSeconds(date) == 0

\* !isNaN(d.getTime())
IsValidDate(date) == date.t = "date"

-----------------------------------------------------------------------------
(* parseDateTime                                                            *)

AM == <<"A", "M">>
PM == <<"P", "M">>

\* A conversion that forgets the 12 AM case (12 AM stays 12).
To24HourNoMidnight(hour, ampm) ==
    IF ampm = PM /\ hour # 12 THEN hour + 12 ELSE hour

\* if (ampm === 'PM' && hour !== 12) hour += 12;
\* if (ampm === 'AM' && hour === 12) hour = 0;
To24Hour(hour, ampm) ==
    LET h1 == IF ampm = PM /\ hour # 12 THEN hour + 12 ELSE hour
    IN  IF ampm = AM /\ h1 = 12 THEN 0 ELSE h1

\* if (!parts) return null;
NoMatchResult(v) == JsNull

\* dateTimeStr.match(...) exists on strings only: a number (dynamicTyping
\* turns a numeric cell into one), null or undefined (a missing column)
\* has no match method and the call raises a TypeError.
parseDateTime(v) ==
    IF v.t # "string" THEN ThrownTypeError
    ELSE LET parts == RegexMatch(v.s)
         IN  IF ~parts.ok THEN NoMatchResult(v)
             ELSE LET day == ParseInt(parts.p1)
                      month == MonthIndex(Substring03(parts.p2))
                      year == ParseInt(parts.p3)
                      hour == To24Hour(ParseInt(parts.p4), parts.p6)
                      minute == ParseInt(parts.p5)
                  IN  NewDate(year, month, day, hour, minute)

-----------------------------------------------------------------------------------------------------------------------------------------
(* Row objects and loadData.                                                *)

K_time == <<"t", "i", "m", "e">>
K_magnitude == <<"m", "a", "g", "n", "i", "t", "u", "d", "e">>
K_date == <<"d", "a", "t", "e">>
K_depth == <<"d", "e", "p", "t", "h">>
K_index == <<"i", "n", "d", "e", "x">>
K_x == <<"x">>
K_y == <<"y">>
K_vx == <<"v", "x">>
K_vy == <<"v", "y">>

\* An object is a function from its property names to values.
EmptyObject == <<>>

\* obj[k] = v
Put(obj, k, v) ==
    [j \in (DOMAIN obj) \cup {k} |-> IF j = k THEN v ELSE obj[j]]

\* obj[k], undefined for a property the object lacks
Get(obj, k) == IF k \in DOMAIN obj THEN obj[k] ELSE JsUndefined

\* String.prototype.trim
RECURSIVE Trim(_)
Trim(s) ==
    IF Len(s) > 0 /\ s[1] = " " THEN Trim(Tail(s))
    ELSE IF Len(s) > 0 /\ s[Len(s)] = " " THEN Trim(SubSeq(s, 1, Len(s) - 1))
    ELSE s

\* key.trim()
CleanKey(s) == Trim(s)

\* for (let key in row) cleanRow[key.trim()] = row[key];  columns in order,
\* so of two headers with the same trimmed name the later one wins.
RECURSIVE CleanRowFrom(_, _, _, _)
CleanRowFrom(header, row, j, cleanRow) ==
    IF j > Len(header) THEN cleanRow
    ELSE CleanRowFrom(header, row, j + 1, Put(cleanRow, CleanKey(header[j]), row[j]))

CleanRow(header, row) == CleanRowFrom(header, row, 1, EmptyObject)

\* parsed.data.map(...)
CleanRows(tbl) == [i \in 1..Len(tbl.rows) |-> CleanRow(tbl.header, tbl.rows[i])]

NullData == [isNull |-> TRUE, rows |-> <<>>]
ArrayData(rows) == [isNull |-> FALSE, rows |-> rows]

\* A catch that returns an empty array in place of null.
CatchResultEmptyArray == ArrayData(<<>>)

\* return null;  (the catch block of loadData)
CatchResult == NullData

LoadingMessage == "Loading"
ErrorMessage ==
    "Error loading data.csv - make sure the file is in the same directory"

\* !data : null is falsy, every array (the empty one too) is truthy
Falsy(d) == d.isNull

-----------------------------------------------------------------------------
(* Normalization: the dates, the filter and the sort of createChart.        *)

\* The first row whose time is no string, 0 if there is none: forEach stops
\* there, parseDateTime having thrown.
FirstThrow(rows) ==
    LET bad == {i \in 1..Len(rows) : parseDateTime(Get(rows[i], K_time)).t = "throw"}
    IN  IF bad = {} THEN 0 ELSE CHOOSE i \in bad : \A j \in bad : i <= j

\* data.forEach((d) => { d.date = parseDateTime(d.time); });  rows before
\* a throwing one have been given their date, the others have not.
WithDates(rows) ==
    LET stop == FirstThrow(rows)
    IN  [i \in 1..Len(rows) |->
            IF stop = 0 \/ i < stop
            THEN Put(rows[i], K_date, parseDateTime(Get(rows[i], K_time)))
            ELSE rows[i]]

\* (d) => d.date !== null && !isNaN(d.date.getTime())
Keeps(d) == Get(d, K_date).t # "null" /\ IsValidDate(Get(d, K_date))

\* data.filter(...): the indices of the rows kept, in their order
RECURSIVE FilterFrom(_, _)
FilterFrom(rows, i) ==
    IF i > Len(rows) THEN <<>>
    ELSE (IF Keeps(rows[i]) THEN <<i>> ELSE <<>>) \o FilterFrom(rows, i + 1)

\* (a, b) => a.date - b.date
Compare(a, b) == Get(a, K_date).n - Get(b, K_date).n

\* Array.prototype.sort is stable: an element goes after every element
\* already placed that does not compare greater.
RECURSIVE InsertSorted(_, _, _)
InsertSorted(rows, sorted, i) ==
    IF sorted = <<>> THEN <<i>>
    ELSE IF Compare(rows[Head(sorted)], rows[i]) > 0 THEN <<i>> \o sorted
    ELSE <<Head(sorted)>> \o InsertSorted(rows, Tail(sorted), i)

RECURSIVE SortFrom(_, _, _)
SortFrom(rows, todo, sorted) ==
    IF todo = <<>> THEN sorted
    ELSE SortFrom(rows, Tail(todo), InsertSorted(rows, sorted, Head(todo)))

\* validData = data.filter(...); validData.sort(...)
FilterSort(rows) == SortFrom(rows, FilterFrom(rows, 1), <<>>)

-----------------------------------------------------------------------------
(* Time range, dimensions and scales.                                       *)

\* const pixelsPerMinute = 15;
PixelsPerMinute == 15

\* window.innerWidth < 768
MobileBreakpoint == 768

NoChart ==
    [startTime |-> 0, endTime |-> 0, totalMinutes |-> 0, chartHeight |-> 0,
     innerWidth |-> 0, isMobile |-> FALSE, marginTop |-> 0, marginRight |-> 0,
     marginBottom |-> 0, marginLeft |-> 0, width |-> 0]

\* Math.ceil((endTime - startTime) / (1000 * 60)): both are whole minutes
TotalMinutes(startTime, endTime) == endTime - startTime

\* const chartHeight = totalMinutes * pixelsPerMinute;
ChartHeight(totalMinutes) == totalMinutes * PixelsPerMinute

\* Lines 83-104: the time range of the sorted array (its first and last
\* element), the chart height, the responsive margins and the width.
MakeChart(rows, valid, innerWidth) ==
    LET startTime == Get(rows[valid[1]], K_date).n
        endTime == Get(rows[valid[Len(valid)]], K_date).n
        totalMinutes == TotalMinutes(startTime, endTime)
        isMobile == innerWidth < MobileBreakpoint
        top == IF isMobile THEN 100 ELSE 150
        right == IF isMobile THEN 40 ELSE 80
        bottom == IF isMobile THEN 40 ELSE 50
        left == IF isMobile THEN 60 ELSE 180
    IN  [startTime |-> startTime, endTime |-> endTime,
         totalMinutes |-> totalMinutes,
         chartHeight |-> ChartHeight(totalMinutes),
         innerWidth |-> innerWidth, isMobile |-> isMobile,
         marginTop |-> top, marginRight |-> right, marginBottom |-> bottom,
         marginLeft |-> left, width |-> innerWidth - left - right]

\* A scale with its range reversed ([chartHeight, 0]).
YScaleReversed(ch, t) ==
    IF ch.endTime = ch.startTime THEN (ch.chartHeight * 100) \div 2
    ELSE ((ch.endTime - t) * ch.chartHeight * 100)
             \div (ch.endTime - ch.startTime)

\* d3.scaleTime().domain([startTime, endTime]).range([0, chartHeight]) at
\* the instant t (in minutes), in hundredths of a pixel: linear, not
\* clamped; over a domain of zero width d3 gives the middle of the range.
YScale(ch, t) ==
    IF ch.endTime = ch.startTime THEN (ch.chartHeight * 100) \div 2
    ELSE ((t - ch.startTime) * ch.chartHeight * 100)
             \div (ch.endTime - ch.startTime)

\* The integer square root, by bisection.
RECURSIVE SqrtBetween(_, _, _)
SqrtBetween(k, lo, hi) ==
    IF lo >= hi THEN lo
    ELSE LET mid == (lo + hi + 1) \div 2
         IN  IF mid * mid <= k THEN SqrtBetween(k, mid, hi)
             ELSE SqrtBetween(k, lo, mid - 1)

ISqrt(k) == SqrtBetween(k, 0, 46340)

Magnitudes(rows, valid) == {Get(rows[valid[i]], K_magnitude).n : i \in 1..Len(valid)}

SetMin(S) == CHOOSE m \in S : \A k \in S : m <= k
SetMax(S) == CHOOSE m \in S : \A k \in S : m >= k

\* d3.scaleSqrt().domain([min magnitude, max magnitude]).range(isMobile ?
\* [10, 35] : [14, 45]) at magnitude m (tenths), in hundredths of a pixel:
\* linear in the square root; the middle of the range when all magnitudes
\* are equal.
RadiusScale(ch, mags, m) ==
    LET r0 == IF ch.isMobile THEN 1000 ELSE 1400
        r1 == IF ch.isMobile THEN 3500 ELSE 4500
        s0 == ISqrt(SetMin(mags) * 100000)
        s1 == ISqrt(SetMax(mags) * 100000)
        sm == ISqrt(m * 100000)
    IN  IF s1 = s0 THEN (r0 + r1) \div 2
        ELSE r0 + ((r1 - r0) * (sm - s0)) \div (s1 - s0)

\* Lines 144-176: one tick per minute from startTime while currentTime <=
\* endTime; a label on every fifth minute and on the hour.
TimeTicks(ch) ==
    [k \in 1..(ch.totalMinutes + 1) |->
        LET time == ch.startTime + (k - 1)
            isHourMark == GetMinutes(JsDate(time)) = 0
        IN  [y |-> YScale(ch, time),
             major |-> isHourMark,
             labelled |-> (GetMinutes(JsDate(time)) % 5 = 0) \/ isHourMark]]

\* new Date(2025, 9, day, hour, minute): every annotation is in October 2025
Oct2025(day, hour, minute) == NewDate(2025, 9, day, hour, minute).n

Ann(startDate, endDate, side, height) ==
    [startDate |-> startDate, endDate |-> endDate, side |-> side, height |-> height]

\* Lines 221-377: the annotations, in the order of the calls.
AnnotationList ==
    << Ann(Oct2025(10, 17, 14), Oct2025(10, 17, 20), "left", 80),
       Ann(Oct2025(10, 22, 50), Oct2025(10, 22, 58), "left", 80),
       Ann(Oct2025(11, 3, 20), Oct2025(11, 3, 30), "left", 80),
       Ann(Oct2025(10, 9, 46), Oct2025(10, 9, 50), "right", 120),
       Ann(Oct2025(10, 10, 40), Oct2025(10, 10, 50), "right", 120),
       Ann(Oct2025(10, 11, 40), Oct2025(10, 11, 50), "right", 120),
       Ann(Oct2025(10, 14, 0), Oct2025(10, 14, 10), "right", 120),
       Ann(Oct2025(10, 16, 30), Oct2025(10, 16, 40), "right", 120),
       Ann(Oct2025(11, 0, 0), Oct2025(11, 0, 20), "right", 120),
       Ann(Oct2025(10, 19, 0), Oct2025(10, 19, 10), "right", 120),
       Ann(Oct2025(10, 21, 0), Oct2025(10, 21, 10), "right", 120),
       Ann(Oct2025(11, 2, 30), Oct2025(11, 2, 40), "right", 120),
       Ann(Oct2025(11, 3, 30), Oct2025(11, 3, 40), "right", 150),
       Ann(Oct2025(11, 6, 30), Oct2025(11, 6, 40), "right", 120),
       Ann(Oct2025(11, 10, 20), Oct2025(11, 10, 50), "right", 170),
       Ann(Oct2025(11, 14, 26), Oct2025(11, 14, 38), "right", 120),
       Ann(Oct2025(11, 16, 0), Oct2025(11, 16, 10), "right", 120),
       Ann(Oct2025(11, 18, 20), Oct2025(11, 18, 30), "right", 170),
       Ann(Oct2025(11, 16, 25), Oct2025(11, 16, 30), "left", 80),
       Ann(Oct2025(12, 0, 20), Oct2025(12, 0, 30), "right", 120),
       Ann(Oct2025(12, 9, 0), Oct2025(12, 9, 30), "right", 160),
       Ann(Oct2025(12, 2, 50), Oct2025(12, 2, 55), "left", 80) >>

\* addAnnotation: the foreignObject's side, y and height, y being
\* annotationY - 40 on the left and annotationY - 100 on the right, with
\* annotationY = (yScale(startDate) + yScale(endDate)) / 2.
AddAnnotation(ch, a) ==
    LET annotationY == (YScale(ch, a.startDate) + YScale(ch, a.endDate)) \div 2
    IN  [side |-> a.side,
         y |-> annotationY - (IF a.side = "left" THEN 4000 ELSE 10000),
         height |-> a.height]

Annotations(ch) == [k \in 1..Len(AnnotationList) |-> AddAnnotation(ch, AnnotationList[k])]

-----------------------------------------------------------------------------
(* The force simulation: d3.forceSimulation(validData) with forceY towards  *)
(* yScale(d.date) at strength 1, forceX towards width / 2 at strength 0.1   *)
(* and forceCollide of radius radiusScale(d.magnitude) + 1.5, stopped and   *)
(* ticked by hand.  The library's arithmetic is floating point; here it is  *)
(* fixed point, lengths in hundredths of a pixel, alpha in millionths, and  *)
(* every division rounds towards zero.                                      *)

\* Division rounding towards zero.
Div(a, b) == IF a >= 0 THEN a \div b ELSE 0 - ((0 - a) \div b)

\* The simulation's initial placement of node i (0-based) when the node has
\* no x or y: radius 10 * sqrt(0.5 + i) at angle i * pi * (3 - sqrt(5)).
InitialPosition(i) ==
    CASE i = 0 -> [x |-> 707, y |-> 0]
      [] i = 1 -> [x |-> 0 - 903, y |-> 827]
      [] i = 2 -> [x |-> 138, y |-> 0 - 1575]
      [] i = 3 -> [x |-> 1138, y |-> 1485]
      [] i = 4 -> [x |-> 0 - 2089, y |-> 0 - 369]
      [] i = 5 -> [x |-> 1979, y |-> 0 - 1259]
      [] i = 6 -> [x |-> 0 - 662, y |-> 2462]
      [] OTHER -> [x |-> 0 - 1262, y |-> 0 - 2430]

IsNumber(v) == v.t = "number"

\* initializeNodes: node.index = i; x and y from the initial placement when
\* either is missing (NaN); vx = vy = 0 when either is missing.
InitializeNode(d, i) ==
    LET placed == IsNumber(Get(d, K_x)) /\ IsNumber(Get(d, K_y))
        moving == IsNumber(Get(d, K_vx)) /\ IsNumber(Get(d, K_vy))
        d1 == Put(d, K_index, JsNumber(i))
        d2 == IF placed THEN d1
              ELSE Put(Put(d1, K_x, JsNumber(InitialPosition(i).x)),
                       K_y, JsNumber(InitialPosition(i).y))
    IN  IF moving THEN d2
        ELSE Put(Put(d2, K_vx, JsNumber(0)), K_vy, JsNumber(0))

\* The rows after forceSimulation(validData): the nodes are the very
\* objects of data that validData refers to.
InitializeNodes(rows, valid) ==
    [r \in 1..Len(rows) |->
        IF \E i \in 1..Len(valid) : valid[i] = r
        THEN InitializeNode(rows[r], (CHOOSE i \in 1..Len(valid) : valid[i] = r) - 1)
        ELSE rows[r]]

NoSim == [alpha |-> 0, yz |-> <<>>, xz |-> 0, radii |-> <<>>]

\* (d) => yScale(d.date)
TargetY(ch, d) == YScale(ch, Get(d, K_date).n)

\* What the forces hold once initialized: the target y of every node, the
\* target x (width / 2) and the collision radius of every node.
InitializeForces(rows, valid, ch) ==
    [alpha |-> 1000000,
     yz |-> [i \in 1..Len(valid) |-> TargetY(ch, rows[valid[i]])],
     xz |-> ch.width * 50,
     radii |-> [i \in 1..Len(valid) |->
                  RadiusScale(ch, Magnitudes(rows, valid),
                              Get(rows[valid[i]], K_magnitude).n) + 150]]

\* The positions and velocities of the nodes, in the order of validData.
NodesOf(rows, valid) ==
    [i \in 1..Len(valid) |->
        [x |-> Get(rows[valid[i]], K_x).n, y |-> Get(rows[valid[i]], K_y).n,
         vx |-> Get(rows[valid[i]], K_vx).n, vy |-> Get(rows[valid[i]], K_vy).n]]

\* alpha += (alphaTarget - alpha) * alphaDecay, alphaTarget being 0 and
\* alphaDecay 1 - 0.001^(1/300) = 0.022763
NextAlpha(alpha) == alpha - (((alpha \div 1000) * 22763) \div 1000)

\* forceY, strength 1: vy += (yz[i] - y) * alpha
ForceY(nodes, s, alpha) ==
    [i \in 1..Len(nodes) |->
        [nodes[i] EXCEPT !.vy = @ + Div((s.yz[i] - nodes[i].y) * (alpha \div 100), 10000)]]

\* A simulation without the x force.
ForceXOff(nodes, s, alpha) == nodes

\* forceX, strength 0.1: vx += (xz - x) * 0.1 * alpha
ForceX(nodes, s, alpha) ==
    [i \in 1..Len(nodes) |->
        [nodes[i] EXCEPT !.vx = @ + Div((s.xz - nodes[i].x) * (alpha \div 100), 100000)]]

\* forceCollide for the pair i < j, node i anticipated at (xi, yi): when
\* the anticipated centres are closer than ri + rj, both velocities change
\* along the line between them, by the overlap, shared by squared radius.
\* Two coincident centres are separated along the diagonal (the library
\* jiggles them by a pseudo-random 1e-6).
CollidePair(nodes, radii, i, j, xi, yi) ==
    LET dx == xi - nodes[j].x - nodes[j].vx
        dy == yi - nodes[j].y - nodes[j].vy
        r == radii[i] + radii[j]
        l == dx * dx + dy * dy
        dist == ISqrt(l)
        fx == IF dist = 0 THEN (r * 707) \div 1000 ELSE Div(dx * (r - dist), dist)
        fy == IF dist = 0 THEN (r * 707) \div 1000 ELSE Div(dy * (r - dist), dist)
        ri2 == (radii[i] \div 10) * (radii[i] \div 10)
        rj2 == (radii[j] \div 10) * (radii[j] \div 10)
        w == (rj2 * 1000) \div (ri2 + rj2)
    IN  IF l < r * r
        THEN [nodes EXCEPT
                ![i].vx = @ + Div(fx * w, 1000),
                ![i].vy = @ + Div(fy * w, 1000),
                ![j].vx = @ - Div(fx * (1000 - w), 1000),
                ![j].vy = @ - Div(fy * (1000 - w), 1000)]
        ELSE nodes

RECURSIVE CollideFrom(_, _, _, _, _, _)
CollideFrom(nodes, radii, i, j, xi, yi) ==
    IF j > Len(nodes) THEN nodes
    ELSE CollideFrom(CollidePair(nodes, radii, i, j, xi, yi), radii, i, j + 1, xi, yi)

\* One pass of forceCollide: node by node, each against the nodes of larger
\* index, from its anticipated position xi = x + vx, yi = y + vy.
RECURSIVE Collide(_, _, _)
Collide(nodes, radii, i) ==
    IF i > Len(nodes) THEN nodes
    ELSE Collide(CollideFrom(nodes, radii, i, i + 1,
                             nodes[i].x + nodes[i].vx, nodes[i].y + nodes[i].vy),
                 radii, i + 1)

\* node.x += node.vx *= velocityDecay, velocityDecay being 0.6
Move(nodes) ==
    [i \in 1..Len(nodes) |->
        LET vx == Div(nodes[i].vx * 6, 10)
            vy == Div(nodes[i].vy * 6, 10)
        IN  [x |-> nodes[i].x + vx, y |-> nodes[i].y + vy, vx |-> vx, vy |-> vy]]

\* simulation.tick(): alpha decays, the forces act in the order they were
\* added (y, x, collide), then every node moves.
TickNodes(nodes, s) ==
    LET alpha == NextAlpha(s.alpha)
    IN  Move(Collide(ForceX(ForceY(nodes, s, alpha), s, alpha), s.radii, 1))

\* The rows with the nodes' new positions and velocities written back
\* (every node has had x, y, vx and vy since the simulation was created).
WriteNodes(rows, valid, nodes) ==
    [r \in 1..Len(rows) |->
        IF \E i \in 1..Len(valid) : valid[i] = r
        THEN LET i == CHOOSE k \in 1..Len(valid) : valid[k] = r
             IN  [rows[r] EXCEPT ![K_x] = JsNumber(nodes[i].x),
                                 ![K_y] = JsNumber(nodes[i].y),
                                 ![K_vx] = JsNumber(nodes[i].vx),
                                 ![K_vy] = JsNumber(nodes[i].vy)]
        ELSE rows[r]]

\* A loop that stops one tick early.
TickLimitShort == 300 - 1

\* for (let i = 0; i < 300; i++) simulation.tick();
TickLimit == 300

-----------------------------------------------------------------------------
(* Circles, labels and the scroll reveal.                                   *)

\* Lines 408-416 and 430-434: one circle per element of validData, bound to
\* it, with cx, cy and r read from it once.
MakeCircles(rows, valid, ch) ==
    [i \in 1..Len(valid) |->
        [datum |-> valid[i],
         cx |-> Get(rows[valid[i]], K_x).n,
         cy |-> Get(rows[valid[i]], K_y).n,
         r |-> RadiusScale(ch, Magnitudes(rows, valid),
                           Get(rows[valid[i]], K_magnitude).n),
         visible |-> FALSE]]

\* (d) => d.magnitude >= 2.5
HasLabel(d) == Get(d, K_magnitude).n >= 25

RECURSIVE LabelledFrom(_, _, _)
LabelledFrom(rows, valid, i) ==
    IF i > Len(valid) THEN <<>>
    ELSE (IF HasLabel(rows[valid[i]]) THEN <<valid[i]>> ELSE <<>>)
             \o LabelledFrom(rows, valid, i + 1)

\* Lines 419-428: one text per element of magnitude 2.5 and above, at
\* (d.x, d.y + 5), with opacity 0.
MakeLabels(rows, valid) ==
    LET shown == LabelledFrom(rows, valid, 1)
    IN  [i \in 1..Len(shown) |->
            [datum |-> shown[i],
             x |-> Get(rows[shown[i]], K_x).n,
             y |-> Get(rows[shown[i]], K_y).n + 500,
             opacity |-> 0]]

\* scrollTop + windowHeight / 2, in hundredths of a pixel
ScrollCenter(top, windowHeight) == top * 100 + windowHeight * 50

\* d.y + margin.top <= scrollCenter
Reached(d, ch, center) == Get(d, K_y).n + ch.marginTop * 100 <= center

\* A reveal that follows the current scrollCenter, hiding circles again.
RevealCirclesTracking(cs, rows, ch, center) ==
    [i \in 1..Len(cs) |->
        [cs[i] EXCEPT !.visible = Reached(rows[cs[i].datum], ch, center)]]

\* circles.each: a circle at or above the centre of the window that is not
\* yet visible gets the class visible; nothing removes the class.
RevealCircles(cs, rows, ch, center) ==
    [i \in 1..Len(cs) |->
        IF Reached(rows[cs[i].datum], ch, center) /\ ~cs[i].visible
        THEN [cs[i] EXCEPT !.visible = TRUE]
        ELSE cs[i]]

\* labels.each: a label at or above the centre of the window gets opacity 1.
RevealLabels(ls, rows, ch, center) ==
    [i \in 1..Len(ls) |->
        IF Reached(rows[ls[i].datum], ch, center)
        THEN [ls[i] EXCEPT !.opacity = 1]
        ELSE ls[i]]

\* if (scrollTop > 200) the scroll hint is hidden
HintThreshold == 200

-----------------------------------------------------------------------------
(* The inputs: the tables data.csv may hold, and the window.                *)

MaxRecords == 2

T1259PM ==
    <<"1", "0", " ", "O", "c", "t", " ", "2", "0", "2", "5", " ", "-", " ",
      "1", "2", ":", "5", "9", " ", "P", "M">>
T0100PM ==
    <<"1", "0", " ", "O", "c", "t", " ", "2", "0", "2", "5", " ", "-", " ",
      "1", ":", "0", "0", " ", "P", "M">>
T0101PM ==
    <<"1", "0", " ", "O", "c", "t", " ", "2", "0", "2", "5", " ", "-", " ",
      "1", ":", "0", "1", " ", "P", "M">>
TLowerMonth ==
    <<"1", "0", " ", "o", "c", "t", " ", "2", "0", "2", "5", " ", "-", " ",
      "1", ":", "0", "0", " ", "P", "M">>
Garbage == <<"g", "a", "r", "b", "a", "g", "e">>

RowKind(time, magnitude) == [time |-> time, magnitude |-> JsNumber(magnitude)]

\* A time and a magnitude (in tenths): three instants out of text order, a
\* text that does not match, a month that is not in the table, and a cell
\* that dynamicTyping read as a number.
RowKinds ==
    { RowKind(JsString(T0101PM), 31), RowKind(JsString(T1259PM), 24),
      RowKind(JsString(T0100PM), 25),
      RowKind(JsString(Garbage), 31), RowKind(JsString(TLowerMonth), 24),
      RowKind(JsNumber(2025), 31) }

\* Two headers: one whose names need trimming, with a column the chart
\* does not use, and one with a column named date.
HeaderSpaced == <<<<" ">> \o K_time, K_magnitude \o <<" ">>, K_depth>>
HeaderWithDate == <<K_time, K_magnitude, K_date>>

Headers == {HeaderSpaced, HeaderWithDate}

\* The cell of the third column, when the table has one.
ExtraCell(header) ==
    IF header[3] = K_depth THEN JsNumber(330) ELSE JsString(<<"F", "r", "i">>)

MakeRow(header, kind) ==
    IF Len(header) = 3 THEN <<kind.time, kind.magnitude, ExtraCell(header)>>
    ELSE <<kind.time, kind.magnitude>>

KindSeqs == UNION {[1..k -> RowKinds] : k \in 0..MaxRecords}

Tables ==
    {[header |-> h, rows |-> [i \in 1..Len(ks) |-> MakeRow(h, ks[i])]] :
        h \in Headers, ks \in KindSeqs}

NoTable == [header |-> <<>>, rows |-> <<>>]

InnerWidths == {375, 1260}
InnerHeights == {100, 600}
ScrollTops == {0, 120, 300}

-----------------------------------------------------------------------------
(* The state before createChart is called.                                  *)

PipelineInit ==
    /\ pc = "idle"
    /\ table = NoTable
    /\ data = NullData
    /\ validData = <<>>
    /\ uncaught = "none"
    /\ consoleErrors = FALSE
    /\ loadingText = LoadingMessage
    /\ loadingShown = TRUE
    /\ containerShown = FALSE
    /\ scrollHintShown = FALSE
    /\ chart = NoChart
    /\ svgCreated = FALSE
    /\ timeTicks = <<>>
    /\ annotations = <<>>
    /\ sim = NoSim
    /\ tickCount = 0
    /\ circles = <<>>
    /\ labels = <<>>
    /\ listener = FALSE
    /\ scrollCenter = 0 - 1
    /\ maxScrollCenter = 0 - 1

ParseIdle ==
    /\ dateTimeStr = JsString(<<>>)
    /\ written = [present |-> FALSE, day |-> 0, month0 |-> 0, year |-> 0,
                  hour |-> 0, minute |-> 0, marker |-> <<>>]
    /\ parseResult = JsNull
    /\ parsePc = "ready"

Init == ParseIdle /\ PipelineInit

-----------------------------------------------------------------------------
(* loadData                                                                 *)

\* createChart() is called: loadData starts and awaits fetch('data.csv').
Start ==
    /\ pc = "idle"
    /\ pc' = "awaitFetch"
    /\ UNCHANGED <<table, data, validData, uncaught, consoleErrors, chart, sim,
                   tickCount, domVars, drawnVars, scrollVars, parseVars>>

\* The catch block: the error is logged, #loading shows the error text and
\* loadData returns null.
Catch ==
    /\ consoleErrors' = TRUE
    /\ loadingText' = ErrorMessage
    /\ data' = CatchResult
    /\ pc' = "loadReturned"
    /\ UNCHANGED <<table, validData, uncaught, chart, sim, tickCount,
                   loadingShown, containerShown, scrollHintShown, drawnVars,
                   scrollVars, parseVars>>

\* fetch rejects (a network error).
FetchRejects == pc = "awaitFetch" /\ Catch

\* fetch resolves: loadData awaits response.text().
FetchResolves ==
    /\ pc = "awaitFetch"
    /\ pc' = "awaitText"
    /\ UNCHANGED <<table, data, validData, uncaught, consoleErrors, chart, sim,
                   tickCount, domVars, drawnVars, scrollVars, parseVars>>

\* response.text() rejects (the body cannot be read).
TextRejects == pc = "awaitText" /\ Catch

\* Papa.parse or the mapping of its rows throws.
ParseThrows == pc = "awaitText" /\ Catch

\* The text arrives and parses into tbl: loadData returns the rows with
\* their keys trimmed.
ParseCsv(tbl) ==
    /\ pc = "awaitText"
    /\ table' = tbl
    /\ data' = ArrayData(CleanRows(tbl))
    /\ pc' = "loadReturned"
    /\ UNCHANGED <<validData, uncaught, consoleErrors, chart, sim, tickCount,
                   domVars, drawnVars, scrollVars, parseVars>>

-----------------------------------------------------------------------------
(* createChart                                                              *)

\* if (!data) return;
CheckData ==
    /\ pc = "loadReturned"
    /\ pc' = IF Falsy(data) THEN "halted" ELSE "parseDates"
    /\ UNCHANGED <<table, data, validData, uncaught, consoleErrors, chart, sim,
                   tickCount, domVars, drawnVars, scrollVars, parseVars>>

\* data.forEach(...): every row gets its date, unless parseDateTime throws
\* on a time that is no string, which ends createChart.
ParseDates ==
    /\ pc = "parseDates"
    /\ data' = ArrayData(WithDates(data.rows))
    /\ IF FirstThrow(data.rows) = 0
       THEN pc' = "filter" /\ UNCHANGED uncaught
       ELSE pc' = "crashed" /\ uncaught' = "TypeError in parseDateTime"
    /\ UNCHANGED <<table, validData, consoleErrors, chart, sim, tickCount,
                   domVars, drawnVars, scrollVars, parseVars>>

\* const validData = data.filter(...); validData.sort(...);
FilterAndSort ==
    /\ pc = "filter"
    /\ validData' = FilterSort(data.rows)
    /\ pc' = "show"
    /\ UNCHANGED <<table, data, uncaught, consoleErrors, chart, sim, tickCount,
                   domVars, drawnVars, scrollVars, parseVars>>

\* Lines 78-80: #loading is hidden, #container and #scroll-hint are shown.
ShowChart ==
    /\ pc = "show"
    /\ loadingShown' = FALSE
    /\ containerShown' = TRUE
    /\ scrollHintShown' = TRUE
    /\ pc' = "range"
    /\ UNCHANGED <<table, data, validData, uncaught, consoleErrors, chart, sim,
                   tickCount, loadingText, drawnVars, scrollVars, parseVars>>

\* Lines 83-104: validData[0].date throws on an empty array; otherwise the
\* time range, the chart height, the margins and the width are computed
\* from the array and window.innerWidth.
TimeRange(innerWidth) ==
    /\ pc = "range"
    /\ IF validData = <<>>
       THEN /\ pc' = "crashed"
            /\ uncaught' = "TypeError in createChart"
            /\ UNCHANGED chart
       ELSE /\ chart' = MakeChart(data.rows, validData, innerWidth)
            /\ pc' = "svg"
            /\ UNCHANGED uncaught
    /\ UNCHANGED <<table, data, validData, consoleErrors, sim, tickCount,
                   domVars, drawnVars, scrollVars, parseVars>>

\* Lines 107-133: the container's height, the svg and its g, the scales.
CreateSvg ==
    /\ pc = "svg"
    /\ svgCreated' = TRUE
    /\ pc' = "ticks"
    /\ UNCHANGED <<table, data, validData, uncaught, consoleErrors, chart, sim,
                   tickCount, domVars, timeTicks, annotations, circles, labels,
                   scrollVars, parseVars>>

\* Lines 136-176: the centre line and the minute ticks.
DrawTicks ==
    /\ pc = "ticks"
    /\ timeTicks' = TimeTicks(chart)
    /\ pc' = "annotate"
    /\ UNCHANGED <<table, data, validData, uncaught, consoleErrors, chart, sim,
                   tickCount, domVars, svgCreated, annotations, circles, labels,
                   scrollVars, parseVars>>

\* Lines 221-377: the annotations.
Annotate ==
    /\ pc = "annotate"
    /\ annotations' = Annotations(chart)
    /\ pc' = "simulate"
    /\ UNCHANGED <<table, data, validData, uncaught, consoleErrors, chart, sim,
                   tickCount, domVars, svgCreated, timeTicks, circles, labels,
                   scrollVars, parseVars>>

\* Lines 395-403: the simulation is created over validData, with its
\* forces, and stopped.
CreateSimulation ==
    /\ pc = "simulate"
    /\ data' = ArrayData(InitializeNodes(data.rows, validData))
    /\ sim' = InitializeForces(data.rows, validData, chart)
    /\ pc' = "ticking"
    /\ UNCHANGED <<table, validData, uncaught, consoleErrors, chart, tickCount,
                   domVars, drawnVars, scrollVars, parseVars>>

\* One iteration of the loop of line 405.
Tick ==
    /\ pc = "ticking"
    /\ tickCount < TickLimit
    /\ data' = ArrayData(WriteNodes(data.rows, validData,
                                    TickNodes(NodesOf(data.rows, validData), sim)))
    /\ sim' = [sim EXCEPT !.alpha = NextAlpha(sim.alpha)]
    /\ tickCount' = tickCount + 1
    /\ UNCHANGED <<pc, table, validData, uncaught, consoleErrors, chart,
                   domVars, drawnVars, scrollVars, parseVars>>

\* Lines 408-416: the loop is over; the circles are created.
CreateCircles ==
    /\ pc = "ticking"
    /\ ~(tickCount < TickLimit)
    /\ circles' = MakeCircles(data.rows, validData, chart)
    /\ pc' = "labels"
    /\ UNCHANGED <<table, data, validData, uncaught, consoleErrors, chart, sim,
                   tickCount, domVars, svgCreated, timeTicks, annotations,
                   labels, scrollVars, parseVars>>

\* Lines 419-434: the labels are created (and the circles' attributes set
\* again to the same values).
CreateLabels ==
    /\ pc = "labels"
    /\ labels' = MakeLabels(data.rows, validData)
    /\ pc' = "listen"
    /\ UNCHANGED <<table, data, validData, uncaught, consoleErrors, chart, sim,
                   tickCount, domVars, svgCreated, timeTicks, annotations,
                   circles, scrollVars, parseVars>>

\* window.addEventListener('scroll', updateVisibility);
AddScrollListener ==
    /\ pc = "listen"
    /\ listener' = TRUE
    /\ pc' = "update"
    /\ UNCHANGED <<table, data, validData, uncaught, consoleErrors, chart, sim,
                   tickCount, domVars, drawnVars, scrollCenter, maxScrollCenter,
                   parseVars>>

\* updateVisibility with window.pageYOffset = top and window.innerHeight =
\* windowHeight.
UpdateVisibility(top, windowHeight) ==
    LET center == ScrollCenter(top, windowHeight)
    IN  /\ circles' = RevealCircles(circles, data.rows, chart, center)
        /\ labels' = RevealLabels(labels, data.rows, chart, center)
        /\ scrollHintShown' = IF top > HintThreshold THEN FALSE ELSE scrollHintShown
        /\ scrollCenter' = center
        /\ maxScrollCenter' =
               IF center > maxScrollCenter THEN center ELSE maxScrollCenter
        /\ UNCHANGED <<table, data, validData, uncaught, consoleErrors, chart,
                       sim, tickCount, loadingText, loadingShown, containerShown,
                       svgCreated, timeTicks, annotations, listener, parseVars>>

\* updateVisibility();  the last statement of createChart
InitialUpdate(top, windowHeight) ==
    /\ pc = "update"
    /\ pc' = "done"
    /\ UpdateVisibility(top, windowHeight)

\* A scroll event: the page is at top, the window windowHeight high.  The
\* handler runs only once it is registered and createChart has returned,
\* JavaScript running every function to completion.
OnScroll(top, windowHeight) ==
    /\ pc = "done"
    /\ listener
    /\ UNCHANGED pc
    /\ UpdateVisibility(top, windowHeight)

Next ==
    \/ Start
    \/ FetchRejects
    \/ FetchResolves
    \/ TextRejects
    \/ ParseThrows
    \/ pc = "awaitText" /\ \E tbl \in Tables : ParseCsv(tbl)
    \/ CheckData
    \/ ParseDates
    \/ FilterAndSort
    \/ ShowChart
    \/ pc = "range" /\ \E w \in InnerWidths : TimeRange(w)
    \/ CreateSvg
    \/ DrawTicks
    \/ Annotate
    \/ CreateSimulation
    \/ Tick
    \/ CreateCircles
    \/ CreateLabels
    \/ AddScrollListener
    \/ pc = "update" /\ \E top \in ScrollTops, h \in InnerHeights : InitialUpdate(top, h)
    \/ pc = "done" /\ \E top \in ScrollTops, h \in InnerHeights : OnScroll(top, h)

Spec == Init /\ [][Next]_vars

-----------------------------------------------------------------------------
(* parseDateTime on its own: the texts it is called with, each with what    *)
(* it says (the fields a reader takes from it), and the call.               *)

Field(text, means) == [text |-> text, means |-> means]

Prefixes == {<<>>, <<"x">>}
DayFields == {Field(<<"1">>, 1), Field(<<"1", "0">>, 10), Field(<<"3", "1">>, 31)}
MonthFields ==
    {Field(<<"O", "c", "t">>, 9), Field(<<"F", "e", "b">>, 1),
     Field(<<"D", "e", "c">>, 11),
     Field(<<"O", "c", "t", "o", "b", "e", "r">>, 9),
     Field(<<"o", "c", "t">>, Undefined)}
YearFields ==
    {Field(<<"2", "0", "2", "5">>, 2025), Field(<<"2", "0", "2", "4">>, 2024),
     Field(<<"2", "5">>, 25)}
HourFields ==
    {Field(<<"1", "2">>, 12), Field(<<"1">>, 1), Field(<<"1", "1">>, 11),
     Field(<<"5">>, 5), Field(<<"1", "3">>, 13)}
MinuteFields ==
    {Field(<<"0", "0">>, 0), Field(<<"1", "4">>, 14), Field(<<"7", "5">>, 75)}
Markers == {AM, PM, <<"a", "m">>}
Suffixes == {<<>>, <<"!">>}

\* "<day> <month> <year> - <hour>:<minute> <marker>" between a prefix and a
\* suffix.
Compose(pre, d, mo, y, h, mi, mk, suf) ==
    pre \o d \o <<" ">> \o mo \o <<" ">> \o y \o <<" ", "-", " ">> \o h
        \o <<":">> \o mi \o <<" ">> \o mk \o suf

\* The same without the dash.
NoDash ==
    <<"1", "0", " ", "O", "c", "t", " ", "2", "0", "2", "5", " ",
      "5", ":", "1", "4", " ", "P", "M">>

NothingWritten ==
    [present |-> FALSE, day |-> 0, month0 |-> 0, year |-> 0, hour |-> 0,
     minute |-> 0, marker |-> <<>>]

\* A text holds a timestamp when its marker is AM or PM (the fields are
\* digits and a word by construction).
ComposedInputs ==
    {[value |-> JsString(Compose(pre, d.text, mo.text, y.text, h.text, mi.text,
                                 mk, suf)),
      says |-> IF mk \in {AM, PM}
               THEN [present |-> TRUE, day |-> d.means, month0 |-> mo.means,
                     year |-> y.means, hour |-> h.means, minute |-> mi.means,
                     marker |-> mk]
               ELSE NothingWritten] :
        pre \in Prefixes, d \in DayFields, mo \in MonthFields, y \in YearFields,
        h \in HourFields, mi \in MinuteFields, mk \in Markers, suf \in Suffixes}

OtherInputs ==
    {[value |-> v, says |-> NothingWritten] :
        v \in {JsString(Garbage), JsString(<<>>), JsString(NoDash),
               JsNumber(2025), JsNull, JsUndefined}}

ParseInputs == ComposedInputs \cup OtherInputs

ParseInit ==
    /\ \E in \in ParseInputs : dateTimeStr = in.value /\ written = in.says
    /\ parseResult = JsNull
    /\ parsePc = "ready"
    /\ PipelineInit

\* parseDateTime(dateTimeStr)
CallParseDateTime ==
    /\ parsePc = "ready"
    /\ parseResult' = parseDateTime(dateTimeStr)
    /\ parsePc' = "returned"
    /\ UNCHANGED <<dateTimeStr, written, pipeVars>>

ParseNext == CallParseDateTime

SpecParse == ParseInit /\ [][ParseNext]_vars

-----------------------------------------------------------------------------
(* C2, C3: parseDateTime.                                                   *)

\* C2 (as claimed): parseDateTime returns null, raising no exception, for
\* every input that does not hold a timestamp of the expected pattern, and
\* gives a result that is not null only for an input that holds one.
C2_NullOnMismatch ==
    parsePc = "returned" =>
        /\ ~written.present => parseResult = JsNull
        /\ parseResult.t \in {"date", "invalid"} => written.present

\* The hour of the day that hour H with the marker stands for.
HourOfDay(h, marker) ==
    CASE h = 12 /\ marker = AM -> 0
      [] h = 12 /\ marker = PM -> 12
      [] h # 12 /\ marker = PM -> h + 12
      [] OTHER -> h

\* The result is the instant with exactly the fields the text gives.
AsWritten ==
    /\ parseResult.t = "date"
    /\ GetHours(parseResult) = HourOfDay(written.hour, written.marker)
    /\ GetHours(parseResult) \in 0..23
    /\ GetDate(parseResult) = written.day
    /\ GetMonth(parseResult) = written.month0
    /\ GetFullYear(parseResult) = written.year
    /\ GetMinutes(parseResult) = written.minute
    /\ GetSeconds(parseResult) = 0

\* C3 (as claimed): for every matching input with hour H in 1..12 the
\* result has hour 0 for 12 AM, 12 for 12 PM, H + 12 for 1..11 PM and H for
\* 1..11 AM, with day, month, year and minute as in the text and seconds 0.
C3_AsWrittenForEveryMatch ==
    (parsePc = "returned" /\ written.present /\ written.hour \in 1..12)
        => AsWritten

IsLeapYear(y) == (y % 4 = 0 /\ y % 100 # 0) \/ y % 400 = 0

DaysInMonth(y, month0) ==
    CASE month0 = 1 -> IF IsLeapYear(y) THEN 29 ELSE 28
      [] month0 \in {3, 5, 8, 10} -> 30
      [] OTHER -> 31

\* The text names a real minute of the calendar, in a year of three or
\* four digits, with a month of the table.
InRange ==
    /\ written.month0 # Undefined
    /\ written.year \in 100..9999
    /\ written.day \in 1..DaysInMonth(written.year, written.month0)
    /\ written.minute \in 0..59

\* C3 (amended): the same, for the inputs whose month is in the table,
\* whose year is 100..9999, whose day exists in that month and whose minute
\* is 0..59.
C3_AsWrittenInRange ==
    (parsePc = "returned" /\ written.present /\ written.hour \in 1..12 /\ InRange)
        => AsWritten

\* C3 witness: "12:14 AM" on an existing day has been parsed to hour 0.
C3_Witness ==
    /\ parsePc = "returned"
    /\ written.present /\ InRange
    /\ written.hour = 12 /\ written.marker = AM /\ written.minute = 14
    /\ parseResult.t = "date" /\ GetHours(parseResult) = 0

-----------------------------------------------------------------------------
(* C1, C4 - C10: createChart.                                               *)

\* The filter and the sort have run (the empty array then ends createChart
\* with a TypeError at the time range).
PastFilter ==
    \/ pc \in {"show", "range", "svg", "ticks", "annotate", "simulate",
               "ticking", "labels", "listen", "update", "done"}
    \/ uncaught = "TypeError in createChart"

\* The time cell of row r as loaded, and whether it parses to an instant.
TimeCell(r) == table.rows[r][1]
ParsesToInstant(r) == parseDateTime(TimeCell(r)).t = "date"

Occurrences(seq, r) == Cardinality({i \in 1..Len(seq) : seq[i] = r})

\* validData holds exactly the N - K records whose time parses to a valid
\* instant, each once, in non-decreasing order of instant.
Normalized ==
    LET N == Len(data.rows)
        K == Cardinality({r \in 1..N : ~ParsesToInstant(r)})
    IN  /\ Len(validData) = N - K
        /\ \A r \in 1..N :
              Occurrences(validData, r) = IF ParsesToInstant(r) THEN 1 ELSE 0
        /\ \A i, j \in 1..Len(validData) :
              i < j => parseDateTime(TimeCell(validData[i])).n
                           <= parseDateTime(TimeCell(validData[j])).n

\* C1 (as claimed): for every loaded list of N records of which K have a
\* time that does not parse to a valid instant, createChart builds the list
\* of the other N - K records, each once, in non-decreasing order.
C1_EveryListNormalized ==
    (PastFilter \/ uncaught = "TypeError in parseDateTime") => Normalized

\* C1, on the runs in which no call of parseDateTime throws: the list that
\* is built is the normalized one.
C1_ValidDataFilteredSorted == PastFilter => Normalized

\* Of two records the first, unparseable, is dropped and the
\* second kept.
C1_Witness ==
    /\ pc = "done"
    /\ Len(data.rows) = 2
    /\ ~ParsesToInstant(1)
    /\ validData = <<2>>

\* C4 (as claimed): when no record survives the filter, createChart halts
\* showing a message, computes no time range, runs no layout and ends in no
\* uncaught error.
C4_EmptyDatasetHalts ==
    (PastFilter /\ validData = <<>>) =>
        /\ uncaught = "none"
        /\ chart = NoChart
        /\ tickCount = 0
        /\ pc \in {"halted", "crashed", "done"}
              => (loadingShown /\ loadingText # LoadingMessage)

C6_TicksBeforeRendering ==
    /\ tickCount <= 300
    /\ (circles # <<>> \/ labels # <<>> \/ listener
            \/ pc \in {"labels", "listen", "update", "done"})
          => tickCount = 300
    /\ pc = "ticking" => (~listener /\ maxScrollCenter < 0 /\ circles = <<>>)
    /\ maxScrollCenter >= 0 => (listener /\ tickCount = 300)

\* C6 witness: the chart is complete, after exactly 300 ticks.
C6_Witness ==
    pc = "done" /\ tickCount = 300 /\ circles # <<>> /\ listener

\* The time range has been computed.
PastRange ==
    pc \in {"svg", "ticks", "annotate", "simulate", "ticking", "labels",
            "listen", "update", "done"}

\* The instant stored on record r (d.date).
InstantOf(r) == Get(data.rows[r], K_date).n

C8_SourceFieldsPreserved ==
    ~data.isNull =>
        \A r \in 1..Len(data.rows) : \A j \in 1..Len(table.header) :
            Get(data.rows[r], Trim(table.header[j])) = table.rows[r][j]

\* The only event of a dataset with one surviving event.
OnlyEvent == data.rows[validData[1]]

\* C9 (as claimed): after the 300 ticks a single event is at exactly
\* (width / 2, its target y).
C9_SingleEventAtCenter ==
    (PastRange /\ tickCount = 300 /\ Len(validData) = 1) =>
        /\ Get(OnlyEvent, K_x).n = chart.width * 50
        /\ Get(OnlyEvent, K_y).n = YScale(chart, InstantOf(validData[1]))

\* C9 (amended): after the 300 ticks a single event has exactly its target
\* y, and its x lies strictly between the simulation's initial placement
\* and width / 2, at least 99% of the way to width / 2.
C9_SingleEventNearCenter ==
    (PastRange /\ tickCount = 300 /\ Len(validData) = 1) =>
        /\ Get(OnlyEvent, K_y).n = YScale(chart, InstantOf(validData[1]))
        /\ Get(OnlyEvent, K_x).n > InitialPosition(0).x
        /\ Get(OnlyEvent, K_x).n < chart.width * 50
        /\ (chart.width * 50 - Get(OnlyEvent, K_x).n) * 100
               <= chart.width * 50 - InitialPosition(0).x

\* C9 witness: a chart of one event is complete.
C9_Witness ==
    /\ pc = "done" /\ tickCount = 300 /\ Len(validData) = 1
    /\ Get(OnlyEvent, K_x).n < chart.width * 50

\* The circle and the label of datum r, where there is one.
CircleShown(r) == \E i \in 1..Len(circles) : circles[i].datum = r /\ circles[i].visible

\* A circle is visible exactly when some call of updateVisibility has had
\* its y + margin.top at or below scrollCenter; a label is shown only for
\* magnitude 2.5 and above, and only with its circle.
C10_State ==
    /\ \A i \in 1..Len(circles) :
          circles[i].visible <=>
              (maxScrollCenter >= 0
                  /\ Get(data.rows[circles[i].datum], K_y).n + chart.marginTop * 100
                         <= maxScrollCenter)
    /\ \A i \in 1..Len(labels) :
          labels[i].opacity = 1 =>
              /\ table.rows[labels[i].datum][2].n >= 25
              /\ CircleShown(labels[i].datum)

\* A visible circle stays visible, and a call of updateVisibility leaves
\* every record (its x and y among the rest) as it was.
C10_Step ==
    /\ \A i \in 1..Len(circles) : circles[i].visible => circles'[i].visible
    /\ pc \in {"update", "done"} => data' = data

\* C10: the reveal is monotone.
C10_RevealMonotone == [](C10_State) /\ [][C10_Step]_vars

\* C10 witness: the page was scrolled down and back up; a circle above the
\* centre of the window then is still visible, and another is not yet.
C10_Witness ==
    /\ pc = "done"
    /\ \E i \in 1..Len(circles) :
          /\ circles[i].visible
          /\ Get(data.rows[circles[i].datum], K_y).n + chart.marginTop * 100
                 > scrollCenter
    /\ \E i \in 1..Len(circles) : ~circles[i].visible

====
